---- MODULE Spec2Model ----
(***************************************************************************)
(* Game Hub backend: the candidate cache (loadCandidateGames), the genre   *)
(* filter (filterByGenre), the pool selection of POST /recommend and the   *)
(* reconciliation of the LLM's answer with the pool.                       *)
(*                                                                         *)
(* Two deployment variants exist in the repository:                        *)
(*   "functions"  : src/functions/index.js (index-referenced pool,         *)
(*                  favorites excluded, auth middleware)                   *)
(*   "standalone" : src/index.js (id-referenced candidates, no exclusion,  *)
(*                  preload at start-up)                                   *)
(*                                                                         *)
(* Five specifications share the variables: SpecPool, SpecReconcile and    *)
(* SpecCache look at one part each; SpecServer follows a /recommend        *)
(* request and an admin reload from their arrival, and SpecServerFair adds *)
(* the scheduling of the event loop.                                       *)
(*                                                                         *)
(* JavaScript objects are records; a missing property is a field that is   *)
(* not in the record's DOMAIN.  JavaScript arrays are sequences; the       *)
(* 0-based index i of the code is position i + 1 of the sequence.          *)
(***************************************************************************)
EXTENDS Integers, Sequences, FiniteSets, TLC

VARIABLES
    variant,        \* which of the two server files is deployed
    \* ---- process-wide state
    clock,          \* Date.now() as last read
    cachedGames,    \* let cachedGames: a reference to an array, or null
    cachedAt,       \* let cachedAt
    loads,          \* the calls of loadCandidateGames, by call number
    completions,    \* numbers of the calls whose fetch succeeded, in that order
    \* ---- one POST /recommend request, after its validation
    pc,             \* position of the handler
    favorites,      \* req.body.favorites
    candidates,     \* const candidates = await loadCandidateGames()
    genreFiltered,  \* const genreFiltered / filteredCandidates
    pool,           \* the list offered to the LLM
    llmResult,      \* JSON.parse(response.output_text)
    response,       \* what res.status(..).json(..) sent
    \* ---- the same request from its arrival, and one admin request
    srv             \* headers, body, client, calls made and responses sent

cacheVars   == <<clock, cachedGames, cachedAt, loads, completions>>
requestVars == <<pc, favorites, candidates, genreFiltered, pool, llmResult, response>>
vars        == <<variant, cacheVars, requestVars, srv>>

Variants == {"functions", "standalone"}

(***************************************************************************)
(* Bounds of the model.                                                    *)
(***************************************************************************)
MaxPrefix == 3      \* freely ordered documents at the head of a collection
MaxPad    == 8      \* repetitions of one document kind after the head
MaxRecs   == 2      \* items in the LLM's recommendations list
MaxLoads  == 3      \* calls of loadCandidateGames

(***************************************************************************)
(* Program constants.                                                      *)
(***************************************************************************)
CACHE_TTL_MS == 600000      \* 10 * 60 * 1000
MIN_POOL     == 8           \* if (pool.length < 8)

(***************************************************************************)
(* Strings.  String.prototype.toLowerCase on the strings of the model.     *)
(***************************************************************************)
toLowerCase(s) ==
    CASE s = "Portal 2"         -> "portal 2"
      [] s = "PORTAL 2"         -> "portal 2"
      [] s = "HALO"             -> "halo"
      [] s = "Halo"             -> "halo"
      [] s = "Tetris"           -> "tetris"
      [] s = "Unknown Game XYZ" -> "unknown game xyz"
      [] OTHER                  -> s

\* Array.prototype.includes
includes(arr, x) == \E i \in DOMAIN arr : arr[i] = x

\* Array.prototype.map
map(arr, F(_)) == [i \in DOMAIN arr |-> F(arr[i])]

\* Array.prototype.filter
filter(arr, P(_)) == SelectSeq(arr, P)


(***************************************************************************)
(* Values.  null and undefined of JavaScript.                              *)
(***************************************************************************)
Null      == "null"
Undefined == "undefined"

\* g.name || ""  (a missing, null or empty name reads as the empty string)
nameOrEmpty(g) ==
    IF "name" \in DOMAIN g /\ g.name # Null /\ g.name # Undefined THEN g.name ELSE ""

\* g.genres || []
genresOrEmpty(g) == IF "genres" \in DOMAIN g THEN g.genres ELSE <<>>

\* a property read: obj[key], undefined when the property is missing
prop(obj, key) == IF key \in DOMAIN obj THEN obj[key] ELSE Undefined

\* the elements of an array, as a set
elements(arr) == {arr[i] : i \in DOMAIN arr}

(***************************************************************************)
(* The documents of the rawgTopGames collection (doc.data()).              *)
(* A kind is a document without its id.                                    *)
(***************************************************************************)
Puzzle  == [id |-> "g7", name |-> "Puzzle"]
Arcade  == [id |-> "g11", name |-> "Arcade"]
Shooter == [id |-> "g2", name |-> "Shooter"]

KPortal == [name |-> "Portal 2", genres |-> <<Puzzle>>, rating |-> 5]
KTetris == [name |-> "Tetris", genres |-> <<Puzzle, Arcade>>, rating |-> 4]
KHalo   == [name |-> "HALO", genres |-> <<Shooter>>, rating |-> 4]
KBare   == [rating |-> 3]                   \* no id, no name, no genres

Kinds      == {KPortal, KTetris, KHalo, KBare}
KindsWithId == {KPortal, KTetris, KHalo}

\* the document of kind k stored at position i of the collection; the code
\* only compares identifiers (===), so they are opaque strings here
Doc(k, i) == IF k \in KindsWithId THEN [id |-> ToString(i)] @@ k ELSE k

\* the collection holding the documents of the kinds ks, in that order
Collection(ks) == [i \in DOMAIN ks |-> Doc(ks[i], i)]

\* n repetitions of kind k
Pad(k, n) == [i \in 1..n |-> k]

\* sequences of kinds of a length up to n
KindSeqs(n) == UNION {[1..m -> Kinds] : m \in 0..n}

\* the collections of the pool-selection checks: a freely ordered head of up
\* to MaxPrefix documents followed by up to MaxPad documents of one kind
Collections ==
    {Collection(h \o Pad(k, n)) : h \in KindSeqs(MaxPrefix), k \in Kinds, n \in 0..MaxPad}

\* the collections of the reconciliation checks: 0 to 2 documents, or a
\* head of one document followed by MIN_POOL documents of one kind
SmallCollections ==
    {Collection(h) : h \in KindSeqs(2)}
      \cup {Collection(<<h>> \o Pad(k, MIN_POOL)) : h \in {KPortal, KBare}, k \in {KTetris, KHalo}}

\* the favorites lists of the requests (validated: non-empty arrays)
FavoriteLists ==
    { <<"portal 2">>, <<"PORTAL 2", "Halo">>, <<"halo">>, <<"Unknown Game XYZ">>, <<"">> }

(***************************************************************************)
(* loadCandidateGames: the array built from the fetched documents.         *)
(***************************************************************************)
\* src/functions/index.js: snapshot.docs.map((doc) => doc.data())
docsToGames(docs) == docs

\* src/index.js: {id, name, genres: (genres || []).map((g) => g.name), rating, slug}
normalizeDoc(d) ==
    LET picked == {k \in {"id", "name", "rating", "slug"} : k \in DOMAIN d}
    IN  [k \in picked \cup {"genres"} |->
            IF k = "genres"
                THEN map(genresOrEmpty(d), LAMBDA g : prop(g, "name"))
                ELSE d[k]]

docsToGamesStandalone(docs) == map(docs, normalizeDoc)

gamesOf(v, docs) ==
    IF v = "functions" THEN docsToGames(docs) ELSE docsToGamesStandalone(docs)

(***************************************************************************)
(* filterByGenre                                                           *)
(***************************************************************************)
\* the genre names of a game, src/functions/index.js:
\*   (g.genres || []).map((gen) => gen.name)
genreNames(g) == map(genresOrEmpty(g), LAMBDA gen : prop(gen, "name"))

\* candidates.filter((g) => favLower.includes((g.name || "").toLowerCase()))
favGamesOf(cands, favs) ==
    LET favLower == map(favs, toLowerCase)
    IN  filter(cands, LAMBDA g : includes(favLower, toLowerCase(nameOrEmpty(g))))

\* new Set(favGames.flatMap((g) => (g.genres || []).map((gen) => gen.name)))
favGenresOf(cands, favs) ==
    UNION {elements(genreNames(g)) : g \in elements(favGamesOf(cands, favs))}

\* a genre match that looks the genre's id up among the liked genre names
genreMatchesById(cands, favGenres) ==
    filter(cands, LAMBDA g : \E gen \in elements(genresOrEmpty(g)) :
                                prop(gen, "id") \in favGenres)

\* candidates.filter((g) => (g.genres || []).some((gen) => favGenres.has(gen.name)))
genreMatches(cands, favGenres) ==
    filter(cands, LAMBDA g : \E n \in elements(genreNames(g)) : n \in favGenres)

\* a filterByGenre without its two fallbacks
filterByGenreNoFallback(cands, favs) ==
    genreMatches(cands, favGenresOf(cands, favs))

filterByGenre(cands, favs) ==
    LET favGenres == favGenresOf(cands, favs)
        filtered  == genreMatches(cands, favGenres)
    IN  IF favGenres = {} THEN cands
        ELSE IF Len(filtered) > 0 THEN filtered ELSE cands

\* src/index.js: the genres of a game are already names
favGenresStandalone(cands, favs) ==
    UNION {elements(genresOrEmpty(g)) : g \in elements(favGamesOf(cands, favs))}

filterByGenreStandalone(cands, favs) ==
    LET favGenres == favGenresStandalone(cands, favs)
        filtered  == filter(cands,
                        LAMBDA g : \E n \in elements(genresOrEmpty(g)) : n \in favGenres)
    IN  IF favGenres = {} THEN cands
        ELSE IF Len(filtered) > 0 THEN filtered ELSE cands

(***************************************************************************)
(* Pool selection of POST /recommend (src/functions/index.js).             *)
(***************************************************************************)
\* an exclusion that also drops the games that have no name
excludeFavoritesNamedOnly(filteredGames, favs) ==
    LET favoritesLower == map(favs, toLowerCase)
    IN  filter(filteredGames,
               LAMBDA g : "name" \in DOMAIN g
                            /\ ~includes(favoritesLower, toLowerCase(g.name)))

\* an exclusion that compares the candidate's name as it is spelled
excludeFavoritesCaseSensitive(filteredGames, favs) ==
    LET favoritesLower == map(favs, toLowerCase)
    IN  filter(filteredGames,
               LAMBDA g : ~includes(favoritesLower, nameOrEmpty(g)))

\* genreFiltered.filter((g) => !favoritesLower.includes((g.name || "").toLowerCase()))
excludeFavorites(filteredGames, favs) ==
    LET favoritesLower == map(favs, toLowerCase)
    IN  filter(filteredGames,
               LAMBDA g : ~includes(favoritesLower, toLowerCase(nameOrEmpty(g))))

\* a pool selection without the widening to all candidates
selectPoolNoWidening(cands, filteredGames, favs) ==
    LET excluded == excludeFavorites(filteredGames, favs)
    IN  IF Len(excluded) < MIN_POOL THEN filteredGames ELSE excluded

\* a pool selection whose size tests are off by one (<= 8 for < 8)
selectPoolOffByOne(cands, filteredGames, favs) ==
    LET excluded == excludeFavorites(filteredGames, favs)
        pool1    == IF Len(excluded) <= MIN_POOL THEN filteredGames ELSE excluded
    IN  IF Len(pool1) <= MIN_POOL THEN cands ELSE pool1

\* let pool = ...; if (pool.length < 8) pool = genreFiltered;
\* if (pool.length < 8) pool = candidates;
selectPool(cands, filteredGames, favs) ==
    LET excluded == excludeFavorites(filteredGames, favs)
        pool1    == IF Len(excluded) < MIN_POOL THEN filteredGames ELSE excluded
    IN  IF Len(pool1) < MIN_POOL THEN cands ELSE pool1

(***************************************************************************)
(* Reconciliation of the LLM's recommendations.                            *)
(***************************************************************************)
\* a reconciliation that reads the index 1-based
reconcileItemOffByOne(r, games) ==
    IF r.index \in 1..Len(games)
        THEN [reason |-> r.reason] @@ games[r.index]
        ELSE [id |-> Null, name |-> Null, reason |-> r.reason]

\* src/functions/index.js: const game = pool[r.index];
\* !game ? {id: null, name: null, reason} : {...game, reason}
reconcileItem(r, games) ==
    IF r.index \in 0..(Len(games) - 1)
        THEN [reason |-> r.reason] @@ games[r.index + 1]
        ELSE [id |-> Null, name |-> Null, reason |-> r.reason]

\* src/index.js: const game = candidates.find((g) => g.id === r.id);
\* !game ? {id: r.id, name: null, reason} : {...game, reason}
reconcileItemById(r, games) ==
    LET found == {i \in DOMAIN games : prop(games[i], "id") = r.id}
    IN  IF found # {}
            THEN [reason |-> r.reason] @@ games[CHOOSE i \in found : \A j \in found : i <= j]
            ELSE [id |-> r.id, name |-> Null, reason |-> r.reason]

\* a reconciliation that drops the items it cannot resolve
finalResultDropping(recs, games) ==
    map(filter(recs, LAMBDA r : r.index \in 0..(Len(games) - 1)),
        LAMBDA r : reconcileItem(r, games))

\* llmResult.recommendations.map((r) => ...), src/functions/index.js
finalResult(recs, games) == map(recs, LAMBDA r : reconcileItem(r, games))

\* llmResult.recommendations.map((r) => ...), src/index.js
finalResultById(recs, games) == map(recs, LAMBDA r : reconcileItemById(r, games))

(***************************************************************************)
(* The cache and the calls of loadCandidateGames.                          *)
(***************************************************************************)
\* cachedGames = null.  A non-null cachedGames is [ref, games]: the identity
\* of the array (the number of the call that built it) and its elements.
NullRef == [ref |-> 0, games |-> <<>>]

\* Date.now() when the process starts
StartTime == 3 * CACHE_TTL_MS

LoadIds == 1..MaxLoads

\* a call that has not been made yet
IdleLoad ==
    [pc      |-> "idle",        \* idle, fetching, returned, failed
     force   |-> FALSE,         \* the argument
     now     |-> 0,             \* const now = Date.now()
     fetches |-> 0,             \* db.collection("rawgTopGames").get() calls made
     docs    |-> <<>>,          \* the documents the store answered with
     result  |-> NullRef,       \* the value the call returned
     began   |-> 0,             \* number of cache writes before the call
     before  |-> <<NullRef, 0>>]    \* <<cachedGames, cachedAt>> at the call

\* a call that fetched the documents ds and returned them, made at time t
FinishedLoad(v, n, ds, t) ==
    [IdleLoad EXCEPT !.pc = "returned", !.now = t, !.fetches = 1, !.docs = ds,
                     !.result = [ref |-> n, games |-> gamesOf(v, ds)]]

\* the contents the store may answer a get() of the collection with
StoreContents ==
    {<<>>, Collection(<<KPortal, KTetris>>)}

\* the time that passes between two readings of Date.now(): a cache entry
\* stamped t is fresh at t + 1 and at t + CACHE_TTL_MS - 1, and is exactly
\* CACHE_TTL_MS old at t + 1 + (CACHE_TTL_MS - 1)
Elapsed == {1, CACHE_TTL_MS - 1}

\* a freshness test with the comparison inverted
cacheIsFreshInverted(force, games, at, now) ==
    ~force /\ games # NullRef /\ now - at > CACHE_TTL_MS

\* !force && cachedGames && now - cachedAt < CACHE_TTL_MS
cacheIsFresh(force, games, at, now) ==
    ~force /\ games # NullRef /\ now - at < CACHE_TTL_MS

\* a call that fetches a second time after a failed fetch
onFetchFailureRetry(l) ==
    IF l.fetches < 2 THEN [l EXCEPT !.fetches = @ + 1] ELSE [l EXCEPT !.pc = "failed"]

\* the awaited get() rejects: loadCandidateGames throws
onFetchFailure(l) == [l EXCEPT !.pc = "failed"]

\* a failed fetch that empties the cache
cacheOnFailureCleared(entry) == <<NullRef, 0>>

\* the awaited get() rejects: lines 55 and 57 do not run
cacheOnFailure(entry) == entry

\* a cache write that appends the fetched games to the cached ones
cacheOnSuccessMerging(entry, ref, games, now) ==
    <<[ref |-> ref, games |-> entry[1].games \o games], now>>

\* a cache write that keeps the entry of a call made later
cacheOnSuccessNewestOnly(entry, ref, games, now) ==
    IF now >= entry[2] THEN <<[ref |-> ref, games |-> games], now>> ELSE entry

\* cachedGames = snapshot.docs.map(...); cachedAt = now;
cacheOnSuccess(entry, ref, games, now) ==
    <<[ref |-> ref, games |-> games], now>>

\* loadCandidateGames(force) is called, the time d after the previous call:
\* lines 48-54, up to the await
StartLoad(n, force, d) ==
    /\ loads[n].pc = "idle"
    /\ n > 1 => loads[n - 1].pc # "idle"
    /\ clock' = clock + d
    /\ LET hit == cacheIsFresh(force, cachedGames, cachedAt, clock')
       IN  loads' = [loads EXCEPT ![n] =
              [pc      |-> IF hit THEN "returned" ELSE "fetching",
               force   |-> force,
               now     |-> clock',
               fetches |-> IF hit THEN 0 ELSE 1,
               docs    |-> <<>>,
               result  |-> IF hit THEN cachedGames ELSE NullRef,
               began   |-> Len(completions),
               before  |-> <<cachedGames, cachedAt>>]]
    /\ UNCHANGED <<variant, cachedGames, cachedAt, completions, requestVars>>

\* the store read fails: the await throws out of loadCandidateGames
FetchFails(n) ==
    /\ loads[n].pc = "fetching"
    /\ loads' = [loads EXCEPT ![n] = onFetchFailure(loads[n])]
    /\ LET entry == cacheOnFailure(<<cachedGames, cachedAt>>)
       IN  cachedGames' = entry[1] /\ cachedAt' = entry[2]
    /\ UNCHANGED <<variant, clock, completions, requestVars>>

\* the store answers with the documents ds and the await resumes: lines 55-59
FetchReturns(n) ==
    /\ loads[n].pc = "fetching"
    /\ \E ds \in StoreContents :
          LET entry == cacheOnSuccess(<<cachedGames, cachedAt>>, n,
                                      gamesOf(variant, ds), loads[n].now)
          IN  /\ cachedGames' = entry[1]
              /\ cachedAt' = entry[2]
              /\ loads' = [loads EXCEPT ![n].pc = "returned", ![n].docs = ds,
                                        ![n].result = entry[1]]
    /\ completions' = Append(completions, n)
    /\ UNCHANGED <<variant, clock, requestVars>>

(***************************************************************************)
(* POST /recommend, from the return of loadCandidateGames on.              *)
(***************************************************************************)
NoResult   == [unparsed |-> TRUE]
NoResponse == [status |-> 0]

Reasons == {"shares a genre", "highly rated"}

\* the references an LLM answer may hold: valid ones and ones outside the pool
IndexChoices(games) == {-1, 0, Len(games) - 1, Len(games), 999}
IdChoices           == {"1", "2", "999"}

Items(v, games) ==
    IF v = "functions"
        THEN [index : IndexChoices(games), reason : Reasons]
        ELSE [id : IdChoices, reason : Reasons]

ItemLists(v, games) == UNION {[1..n -> Items(v, games)] : n \in 0..MaxRecs}

\* the parsed outputs of the LLM for a request whose pool is games
LlmOutputs(v, games) ==
    IF v = "functions"
        THEN [summary : {"because"}, recommendations : ItemLists(v, games)]
        ELSE [recommendations : ItemLists(v, games)]

\* lines 144-164 of src/functions/index.js, lines 143-152 of src/index.js:
\* the handler resumes with the candidates, builds the pool and the prompt,
\* and calls the LLM
BuildPool ==
    /\ pc = "loaded"
    /\ genreFiltered' =
          IF variant = "functions"
              THEN filterByGenre(candidates, favorites)
              ELSE filterByGenreStandalone(candidates, favorites)
    /\ pool' =
          IF variant = "functions"
              THEN selectPool(candidates, genreFiltered', favorites)
              ELSE genreFiltered'
    /\ pc' = "llm"
    /\ UNCHANGED <<variant, cacheVars, favorites, candidates, llmResult, response>>

\* a 200 response that reconciles against the cache as it is on return
okBodyLiveCache(v, out, games, cands) ==
    IF v = "functions"
        THEN [summary |-> out.summary,
              recommendations |-> finalResult(out.recommendations, cachedGames.games)]
        ELSE [recommendations |-> finalResultById(out.recommendations, cachedGames.games)]

\* the body of the 200 response
okBody(v, out, games, cands) ==
    IF v = "functions"
        THEN [summary |-> out.summary,
              recommendations |-> finalResult(out.recommendations, games)]
        ELSE [recommendations |-> finalResultById(out.recommendations, cands)]

\* the LLM call returns a text that parses: reconcile and answer 200
LlmReturns ==
    /\ pc = "llm"
    /\ \E out \in LlmOutputs(variant, pool) :
          /\ llmResult' = out
          /\ response' = [status |-> 200, body |-> okBody(variant, out, pool, candidates)]
    /\ pc' = "done"
    /\ UNCHANGED <<variant, cacheVars, favorites, candidates, genreFiltered, pool>>

\* the LLM call rejects, or JSON.parse throws: the catch block answers 500
LlmFails ==
    /\ pc = "llm"
    /\ response' = [status |-> 500,
                    body |-> [error |-> IF variant = "functions"
                                           THEN "err.message"
                                           ELSE "Internal LLM or Firestore error"]]
    /\ pc' = "done"
    /\ UNCHANGED <<variant, cacheVars, favorites, candidates, genreFiltered, pool, llmResult>>

\* the request and the admin request as they are while only the cache or
\* the handler's later part is looked at: nothing received yet
NoServer == [stage |-> "none"]

\* a request whose loadCandidateGames call has just returned the games of
\* the collection docs, fetched by the first call of the process
LoadedWith(docs) ==
    /\ variant \in Variants
    /\ clock = StartTime
    /\ cachedGames = [ref |-> 1, games |-> gamesOf(variant, docs)]
    /\ cachedAt = StartTime
    /\ loads = [n \in LoadIds |->
                  IF n = 1 THEN FinishedLoad(variant, 1, docs, StartTime) ELSE IdleLoad]
    /\ completions = <<1>>
    /\ pc = "loaded"
    /\ favorites \in FavoriteLists
    /\ candidates = cachedGames.games
    /\ genreFiltered = <<>>
    /\ pool = <<>>
    /\ llmResult = NoResult
    /\ response = NoResponse
    /\ srv = NoServer

(***************************************************************************)
(* SpecPool: filterByGenre and the pool selection over the collections.    *)
(***************************************************************************)
InitPool == \E docs \in Collections : LoadedWith(docs)
NextPool == BuildPool /\ UNCHANGED srv
SpecPool == InitPool /\ [][NextPool]_vars

(***************************************************************************)
(* SpecReconcile: the request up to its response, over small collections.  *)
(***************************************************************************)
InitReconcile == \E docs \in SmallCollections : LoadedWith(docs)
NextReconcile ==
    \/ BuildPool /\ UNCHANGED srv
    \/ LlmReturns /\ UNCHANGED srv
    \/ LlmFails /\ UNCHANGED srv
SpecReconcile == InitReconcile /\ [][NextReconcile]_vars

(***************************************************************************)
(* Properties of the pool selection (SpecPool).                            *)
(***************************************************************************)
\* a is b with some elements left out, the others in b's order
RECURSIVE IsSubSeq(_, _)
IsSubSeq(a, b) ==
    IF a = <<>> THEN TRUE
    ELSE IF b = <<>> THEN FALSE
    ELSE IF Head(a) = Head(b) THEN IsSubSeq(Tail(a), Tail(b))
    ELSE IsSubSeq(a, Tail(b))

PoolBuilt == pc # "loaded" /\ variant = "functions"

\* C1: the pool offered to the LLM has at least 8 entries whenever the
\* candidate list has at least 8, and is the candidate list itself whenever
\* the candidate list has fewer than 8.
C1_PoolSizeFloor ==
    PoolBuilt =>
        /\ Len(candidates) >= MIN_POOL => Len(pool) >= MIN_POOL
        /\ Len(candidates) < MIN_POOL => pool = candidates

\* C1 witness: 8 or more candidates of which fewer than 8 pass the genre
\* filter, so that the selection widened to all candidates.
C1_Witness ==
    /\ PoolBuilt
    /\ Len(candidates) >= MIN_POOL
    /\ Len(genreFiltered) < MIN_POOL
    /\ pool = candidates

\* the three stages of the selection, narrowest first
Stages == <<excludeFavorites(genreFiltered, favorites), genreFiltered, candidates>>

\* C2: exclusion-filtered pool is contained in the genre-filtered pool, which
\* is contained in the candidate list, and the pool is the narrowest stage
\* with at least 8 entries, or the candidate list when no stage has 8.
C2_NarrowestStage ==
    PoolBuilt =>
        /\ IsSubSeq(Stages[1], Stages[2])
        /\ IsSubSeq(Stages[2], Stages[3])
        /\ LET big == {k \in 1..3 : Len(Stages[k]) >= MIN_POOL}
           IN  pool = IF big = {} THEN candidates
                      ELSE Stages[CHOOSE k \in big : \A j \in big : k <= j]

\* C2 witness: the exclusion leaves exactly 8 games, fewer than the genre
\* filter kept, and the genre filter kept fewer than all candidates.
C2_Witness ==
    /\ PoolBuilt
    /\ Len(Stages[1]) = MIN_POOL
    /\ Len(Stages[1]) < Len(Stages[2])
    /\ Len(Stages[2]) < Len(Stages[3])
    /\ pool = Stages[1]

\* C3: filterByGenre returns a non-empty list for a non-empty candidate list.
C3_NeverEmpty ==
    (pc # "loaded" /\ candidates # <<>>) => genreFiltered # <<>>

\* C3 witness: a favorite was found and the filter kept some, not all, of
\* the candidates.
C3_Witness ==
    /\ pc # "loaded"
    /\ genreFiltered # <<>>
    /\ Len(genreFiltered) < Len(candidates)

\* no lower-cased favorite equals the lower-cased name of a candidate; a
\* candidate without a name is matched as the empty name (g.name || "")
NoFavoriteMatches ==
    \A i \in DOMAIN favorites : \A j \in DOMAIN candidates :
        toLowerCase(favorites[i]) # toLowerCase(nameOrEmpty(candidates[j]))

\* C4: when no favorite equals the name of a candidate, case-insensitively,
\* filterByGenre returns the candidate list as it is and the pool offered to
\* the LLM is the whole candidate list.
C4_IdentityWithoutMatch ==
    (pc # "loaded" /\ NoFavoriteMatches) =>
        /\ genreFiltered = candidates
        /\ pool = candidates

\* C4 witness: favorites that match nothing among 9 or more candidates, one
\* of them without a name, in the variant that excludes favorites.
C4_Witness ==
    /\ PoolBuilt
    /\ NoFavoriteMatches
    /\ Len(candidates) > MIN_POOL
    /\ \E j \in DOMAIN candidates : "name" \notin DOMAIN candidates[j]
    /\ \E j \in DOMAIN candidates : genresOrEmpty(candidates[j]) # <<>>
    /\ pool = candidates

(***************************************************************************)
(* Properties of the reconciliation (SpecReconcile).                       *)
(***************************************************************************)
Answered == pc = "done" /\ response.status = 200

\* the record is the game with the reason added (the reason replacing a
\* reason field of the game, if it had one)
IsGamePlusReason(rec, game, reason) ==
    /\ DOMAIN rec = DOMAIN game \cup {"reason"}
    /\ rec.reason = reason
    /\ \A f \in DOMAIN game \ {"reason"} : rec[f] = game[f]

\* C5: for every item {index, reason} of the model output, the enriched
\* record is pool[index] plus the reason when 0 <= index < |pool|, and is
\* {id: null, name: null, reason} otherwise.
C5_ReconcileByIndex ==
    (Answered /\ variant = "functions") =>
        \A k \in DOMAIN llmResult.recommendations :
            LET r   == llmResult.recommendations[k]
                rec == response.body.recommendations[k]
            IN  IF 0 <= r.index /\ r.index < Len(pool)
                    THEN IsGamePlusReason(rec, pool[r.index + 1], r.reason)
                    ELSE rec = [id |-> Null, name |-> Null, reason |-> r.reason]

\* C5 witness: against a pool of 9 games the model returned the index of
\* the last game and then the index 999.
C5_Witness ==
    /\ Answered
    /\ variant = "functions"
    /\ Len(pool) > MIN_POOL
    /\ Len(llmResult.recommendations) = 2
    /\ llmResult.recommendations[1].index = Len(pool) - 1
    /\ llmResult.recommendations[2].index = 999
    /\ prop(response.body.recommendations[1], "name") = "Tetris"
    /\ prop(response.body.recommendations[2], "name") = Null

\* the item's reference resolves to a game the handler looks it up in
Resolvable(r) ==
    IF variant = "functions"
        THEN r.index \in 0..(Len(pool) - 1)
        ELSE \E i \in DOMAIN candidates : prop(candidates[i], "id") = r.id

\* C6: whenever the model output parsed, the request is answered 200 with
\* as many records as the model returned items, the i-th record carrying the
\* i-th item's reason and reference: no item is dropped or moved, whether
\* its reference resolves or not.
C6_NoItemDropped ==
    (pc = "done" /\ "recommendations" \in DOMAIN llmResult) =>
        /\ response.status = 200
        /\ Len(response.body.recommendations) = Len(llmResult.recommendations)
        /\ \A k \in DOMAIN llmResult.recommendations :
              LET r   == llmResult.recommendations[k]
                  rec == response.body.recommendations[k]
              IN  /\ rec.reason = r.reason
                  /\ variant = "standalone" => rec.id = r.id
                  /\ (variant = "functions" /\ Resolvable(r)) =>
                        prop(rec, "id") = prop(pool[r.index + 1], "id")
                  /\ ~Resolvable(r) => rec.name = Null

\* C6 witness: an unresolvable item followed by a resolvable one with
\* another reason, both kept in that order.
C6_Witness ==
    /\ Answered
    /\ Len(llmResult.recommendations) = 2
    /\ ~Resolvable(llmResult.recommendations[1])
    /\ Resolvable(llmResult.recommendations[2])
    /\ llmResult.recommendations[1].reason # llmResult.recommendations[2].reason
    /\ Len(response.body.recommendations) = 2
    /\ prop(response.body.recommendations[1], "name") = Null
    /\ prop(response.body.recommendations[2], "name") = "Portal 2"

(***************************************************************************)
(* SpecCache: the process from its start, with overlapping calls of        *)
(* loadCandidateGames made at increasing times, each fetch failing or      *)
(* returning one of the contents of the collection.                        *)
(***************************************************************************)
\* src/index.js, lines 59-61: the preload made while the module is loaded
Preload ==
    [IdleLoad EXCEPT !.pc = "fetching", !.now = StartTime, !.fetches = 1]

InitCache ==
    /\ variant \in Variants
    /\ clock = StartTime
    /\ cachedGames = NullRef
    /\ cachedAt = 0
    /\ loads = [n \in LoadIds |->
                  IF n = 1 /\ variant = "standalone" THEN Preload ELSE IdleLoad]
    /\ completions = <<>>
    /\ pc = "none"
    /\ favorites = <<>>
    /\ candidates = <<>>
    /\ genreFiltered = <<>>
    /\ pool = <<>>
    /\ llmResult = NoResult
    /\ response = NoResponse
    /\ srv = NoServer

NextCache ==
    \/ \E n \in LoadIds : \E force \in BOOLEAN : \E d \in Elapsed :
          StartLoad(n, force, d) /\ UNCHANGED srv
    \/ \E n \in LoadIds : FetchFails(n) /\ UNCHANGED srv
    \/ \E n \in LoadIds : FetchReturns(n) /\ UNCHANGED srv

SpecCache == InitCache /\ [][NextCache]_vars

(***************************************************************************)
(* Properties of the cache (SpecCache).                                    *)
(***************************************************************************)
Started(n) == loads[n].pc # "idle"

\* the call was made with a cache entry less than TTL old
MadeOnFreshEntry(n) ==
    /\ loads[n].before[1] # NullRef
    /\ loads[n].now - loads[n].before[2] < CACHE_TTL_MS

\* C7: two calls without force, each made less than TTL after the timestamp
\* of the cached entry and with no cache write between them, return the
\* identical snapshot (the same array), and the second one fetches nothing.
C7_SameSnapshotWithinTtl ==
    \A m \in LoadIds : \A n \in LoadIds :
        ( /\ m < n /\ Started(m) /\ Started(n)
          /\ ~loads[m].force /\ ~loads[n].force
          /\ MadeOnFreshEntry(m) /\ MadeOnFreshEntry(n)
          /\ loads[m].began = loads[n].began )
        => /\ loads[m].pc = "returned" /\ loads[n].pc = "returned"
           /\ loads[n].result # NullRef
           /\ loads[n].result = loads[m].result
           /\ loads[n].fetches = 0

\* C7 witness: after a load filled the cache, two unforced calls at
\* different times got the array that load built.
C7_Witness ==
    \E m \in LoadIds : \E n \in LoadIds :
        /\ m < n /\ Started(m) /\ Started(n)
        /\ ~loads[m].force /\ ~loads[n].force
        /\ MadeOnFreshEntry(m) /\ MadeOnFreshEntry(n)
        /\ loads[m].began = loads[n].began
        /\ loads[m].now < loads[n].now
        /\ loads[m].before[2] < loads[m].now
        /\ loads[n].result = loads[m].result
        /\ loads[n].result.ref # 0

\* a call that has to fetch: forced, or made on an empty or expired cache
MustFetch(n) == loads[n].force \/ ~MadeOnFreshEntry(n)

\* the step is the call n being made
IsCall(n) == loads[n].pc = "idle" /\ loads'[n].pc # "idle"

\* C8: a call that is forced, or made on an empty or expired cache, makes
\* exactly one store fetch, whether that fetch fails or succeeds; an
\* unforced call on a valid cache makes none, returns the cached entry and
\* leaves the cache as it is.
C8_ExactlyOneFetch ==
    /\ [](\A n \in LoadIds :
            Started(n) =>
                IF MustFetch(n)
                    THEN loads[n].fetches = 1
                    ELSE /\ loads[n].fetches = 0
                         /\ loads[n].pc = "returned"
                         /\ loads[n].result = loads[n].before[1])
    /\ [][\A n \in LoadIds :
            IsCall(n) => /\ cachedGames' = cachedGames
                         /\ cachedAt' = cachedAt
                         /\ <<cachedGames, cachedAt>> = loads'[n].before]_vars

\* C8 witness: a forced call whose only fetch failed, and an unforced call
\* on an expired entry whose only fetch succeeded.
C8_Witness ==
    /\ \E n \in LoadIds :
          loads[n].pc = "failed" /\ loads[n].force /\ loads[n].fetches = 1
    /\ \E n \in LoadIds :
          /\ loads[n].pc = "returned" /\ ~loads[n].force
          /\ loads[n].before[1] # NullRef
          /\ loads[n].now - loads[n].before[2] >= CACHE_TTL_MS
          /\ loads[n].fetches = 1
          /\ cachedGames.ref = n

\* the step is the failure, or the success, of the fetch of call n
IsFailure(n) == loads[n].pc = "fetching" /\ loads'[n].pc = "failed"
IsSuccess(n) == loads[n].pc = "fetching" /\ loads'[n].pc = "returned"

\* C9: a failed fetch fails the call and leaves snapshot and timestamp as
\* they were (as they were before the call, when no other call wrote the
\* cache meanwhile); a successful fetch replaces both in one step, so that
\* in every state the timestamp is the one of the call that built the
\* cached snapshot.
C9_FailureKeepsSuccessReplaces ==
    /\ [](IF cachedGames = NullRef
             THEN cachedAt = 0
             ELSE /\ cachedGames.ref \in LoadIds
                  /\ loads[cachedGames.ref].result = cachedGames
                  /\ loads[cachedGames.ref].now = cachedAt)
    /\ [][\A n \in LoadIds :
            /\ IsFailure(n) =>
                  /\ loads'[n].result = NullRef
                  /\ cachedGames' = cachedGames /\ cachedAt' = cachedAt
                  /\ Len(completions) = loads[n].began
                        => <<cachedGames', cachedAt'>> = loads[n].before
            /\ IsSuccess(n) =>
                  /\ cachedGames'.ref = n
                  /\ cachedGames' = loads'[n].result
                  /\ cachedAt' = loads[n].now]_vars

\* C9 witness: a forced reload failed on a filled cache, which still holds
\* the entry a previous call wrote.
C9_Witness ==
    \E m \in LoadIds : \E n \in LoadIds :
        /\ m < n
        /\ loads[m].pc = "returned" /\ loads[m].fetches = 1
        /\ loads[n].pc = "failed" /\ loads[n].force
        /\ loads[n].before = <<loads[m].result, loads[m].now>>
        /\ cachedGames = loads[m].result
        /\ cachedAt = loads[m].now

\* C10: the cache is empty until a fetch succeeds, and from then on holds
\* exactly the games of the documents one fetch returned, the fetch that
\* succeeded last.
C10_LastWriterWins ==
    IF completions = <<>>
        THEN cachedGames = NullRef
        ELSE LET w == completions[Len(completions)]
             IN  /\ loads[w].pc = "returned" /\ loads[w].fetches = 1
                 /\ loads[w].docs \in StoreContents
                 /\ cachedGames = [ref |-> w, games |-> gamesOf(variant, loads[w].docs)]

\* C10 witness: two overlapping fetches that returned different documents;
\* the call made first finished last, and the cache holds its games.
C10_Witness ==
    /\ Len(completions) >= 2
    /\ LET w == completions[Len(completions)]
           v == completions[Len(completions) - 1]
       IN  /\ w < v
           /\ loads[w].docs # loads[v].docs
           /\ loads[v].docs # <<>>
           /\ cachedGames.ref = w
           /\ cachedGames.games = gamesOf(variant, loads[w].docs)

(***************************************************************************)
(* The server from the arrival of a request: the auth middleware, the      *)
(* checks at the head of the /recommend handler, the handler's own         *)
(* loadCandidateGames call, and one POST /admin/reload-candidates request. *)
(* srv holds what the cache and the handler's later part do not:           *)
(*   client     the OpenAI client is configured (let client is not null)   *)
(*   header     req.headers.authorization of the /recommend request        *)
(*   body       req.body.favorites, with its JSON type                     *)
(*   stage      position of the /recommend request before pc takes over    *)
(*   decoded    the claims verifyIdToken returned (email Null before)      *)
(*   nexted     authGuard called next()                                    *)
(*   load       number of the handler's loadCandidateGames call, 0 if none *)
(*   llmCalls   client.responses.create calls made                         *)
(*   prompt     the simplified list put into the prompt                    *)
(*   writesAtPrompt  cache writes made before the prompt was built         *)
(*   writesAtAnswer  cache writes made before the LLM's answer arrived      *)
(*   sent       responses sent to the /recommend request                   *)
(*   failure    what threw into the catch block                            *)
(*   admin      the admin request: header, stage, load, status             *)
(***************************************************************************)
AllowedEmail == "yzhou677@gmail.com"

\* largest number of items in an LLM answer of SpecServer
ServerMaxRecs == 1

\* Authorization headers: none, another scheme, and three bearer tokens
Headers == {"", "Basic abc", "Bearer expired", "Bearer guest", "Bearer owner"}

\* authHeader.match(/^Bearer (.+)$/): match[1], or Null without a match
bearerToken(h) ==
    CASE h = "Bearer expired" -> "expired"
      [] h = "Bearer guest"   -> "guest"
      [] h = "Bearer owner"   -> "owner"
      [] OTHER                -> Null

\* the tokens admin.auth().verifyIdToken can decode, and their claims
VerifiableTokens == {"guest", "owner"}
Decoded(tok) ==
    IF tok = "owner" THEN [email |-> AllowedEmail]
                     ELSE [email |-> "guest@example.com"]

\* authGuard without the comparison of decoded.email
authorizeAnyone(decoded) == 0

\* lines 28-33 of authGuard: 403, or 0 for next()
authorize(decoded) == IF decoded.email # AllowedEmail THEN 403 ELSE 0

\* the values of req.body.favorites: missing, a string, and arrays
MissingFavorites == [type |-> "undefined"]
ServerFavoriteLists == {<<"portal 2">>, <<"Unknown Game XYZ">>}
Bodies ==
    {MissingFavorites, [type |-> "string", value |-> "portal 2"]}
        \cup [type : {"array"}, items : {<<>>} \cup ServerFavoriteLists]

isArray(v) == v.type = "array"

\* the favorites check without the test of favorites.length
favoritesValidAnyArray(v) == isArray(v)

\* !Array.isArray(favorites) || favorites.length === 0, negated
favoritesValid(v) == isArray(v) /\ Len(v.items) # 0

errorResponse(code, msg) == [status |-> code, body |-> [error |-> msg]]

\* the head of the handler without the test of client
handlerEntryNoClientCheck(v, client, favs) ==
    IF ~favoritesValid(favs)
        THEN errorResponse(400, "favorites must be a non-empty array")
        ELSE NoResponse

\* the checks at the head of the handler: the response they send, or
\* NoResponse when the handler goes on to loadCandidateGames
handlerEntry(v, client, favs) ==
    IF v = "functions" /\ ~client
        THEN errorResponse(500, "OpenAI is not configured on the server")
    ELSE IF ~favoritesValid(favs)
        THEN errorResponse(400, "favorites must be a non-empty array")
    ELSE NoResponse

\* pool.map((g, idx) => ({index: idx, name, genres, rating})), and the
\* id-carrying list of src/index.js
simplify(v, games) ==
    [i \in 1..Len(games) |->
        (IF v = "functions" THEN [index |-> i - 1]
                            ELSE [id |-> prop(games[i], "id")])
            @@ [f \in DOMAIN games[i] \cap {"name", "genres", "rating"} |-> games[i][f]]]

NewAdmin == [header |-> "", stage |-> "received", load |-> 0, status |-> 0]

NewServer(client, header, favs, adminHeader) ==
    [client |-> client, header |-> header, body |-> favs,
     stage |-> "received", decoded |-> [email |-> Null], nexted |-> FALSE, load |-> 0, llmCalls |-> 0,
     prompt |-> <<>>, writesAtPrompt |-> 0, writesAtAnswer |-> 0, sent |-> 0, failure |-> "none",
     admin |-> [NewAdmin EXCEPT !.header = adminHeader]]

\* res.status(..).json(..) of the /recommend request, before pc = "loaded"
Respond(s, r) ==
    /\ response' = r
    /\ pc' = "done"
    /\ srv' = [s EXCEPT !.stage = "answered", !.sent = @ + 1]
    /\ UNCHANGED <<favorites, candidates, genreFiltered, pool, llmResult>>

\* the handler up to its first await: lines 127-142 of src/functions/index.js,
\* lines 130-141 of src/index.js.  s is srv as the middleware left it.
Entry(s) ==
    LET r == handlerEntry(variant, s.client, s.body)
    IN  IF r.status # 0
            THEN Respond(s, r) /\ UNCHANGED <<variant, cacheVars>>
            ELSE \E n \in LoadIds : \E d \in Elapsed :
                    /\ StartLoad(n, FALSE, d)
                    /\ srv' = [s EXCEPT !.stage = "loading", !.load = n]

\* authGuard up to its await, lines 17-26: 401 without a bearer token
AuthGuard ==
    /\ variant = "functions"
    /\ srv.stage = "received"
    /\ IF bearerToken(srv.header) = Null
          THEN Respond(srv, errorResponse(401, "Missing Authorization header"))
          ELSE /\ srv' = [srv EXCEPT !.stage = "verifying"]
               /\ UNCHANGED requestVars
    /\ UNCHANGED <<variant, cacheVars>>

\* verifyIdToken throws (a bad token, or the service fails): lines 35-38
VerifyFails ==
    /\ srv.stage = "verifying"
    /\ Respond(srv, errorResponse(401, "Invalid or expired token"))
    /\ UNCHANGED <<variant, cacheVars>>

\* verifyIdToken returns the claims: 403, or next() and with it the handler
\* up to its first await: lines 27-33
VerifyReturns ==
    /\ srv.stage = "verifying"
    /\ bearerToken(srv.header) \in VerifiableTokens
    /\ LET decoded == Decoded(bearerToken(srv.header))
           s == [srv EXCEPT !.decoded = decoded]
       IN  IF authorize(decoded) # 0
               THEN /\ Respond(s, errorResponse(403, "Not allowed"))
                    /\ UNCHANGED <<variant, cacheVars>>
               ELSE Entry([s EXCEPT !.nexted = TRUE])

\* src/index.js has no middleware: the handler runs on arrival
Recommend ==
    /\ variant = "standalone"
    /\ srv.stage = "received"
    /\ Entry(srv)

\* a catch block that only logs
catchResponseSilent(v) == NoResponse

\* the catch block of the handler: lines 258-263, src/index.js 217-220
catchResponse(v) ==
    errorResponse(500, IF v = "functions" THEN "err.message"
                                          ELSE "Internal LLM or Firestore error")

\* await loadCandidateGames() resumes with the candidates
LoadResolved ==
    /\ srv.stage = "loading"
    /\ loads[srv.load].pc = "returned"
    /\ candidates' = loads[srv.load].result.games
    /\ pc' = "loaded"
    /\ srv' = [srv EXCEPT !.stage = "handling"]
    /\ UNCHANGED <<variant, cacheVars, favorites, genreFiltered, pool, llmResult, response>>

\* await loadCandidateGames() throws: the catch block answers 500
LoadRejected ==
    /\ srv.stage = "loading"
    /\ loads[srv.load].pc = "failed"
    /\ Respond([srv EXCEPT !.failure = "store"], catchResponse(variant))
    /\ UNCHANGED <<variant, cacheVars>>

\* the pool and the prompt are built and client.responses.create is called;
\* on a null client the call throws into the catch block
CallLlm ==
    /\ srv.stage = "handling"
    /\ pc = "loaded"
    /\ IF srv.client
          THEN /\ BuildPool
               /\ srv' = [srv EXCEPT !.llmCalls = @ + 1,
                                     !.prompt = simplify(variant, pool'),
                                     !.writesAtPrompt = Len(completions)]
          ELSE /\ Respond([srv EXCEPT !.failure = "client"], catchResponse(variant))
               /\ UNCHANGED <<variant, cacheVars>>

\* the LLM's answer parses: 200.  The answers are those of LlmOutputs with
\* at most ServerMaxRecs items.
ServerLlmReturns ==
    /\ srv.stage = "handling"
    /\ LlmReturns
    /\ Len(llmResult'.recommendations) <= ServerMaxRecs
    /\ srv' = [srv EXCEPT !.stage = "answered", !.sent = @ + 1,
                          !.writesAtAnswer = Len(completions)]

\* client.responses.create rejects ("llm") or JSON.parse throws ("parse")
ServerLlmFails ==
    /\ srv.stage = "handling"
    /\ LlmFails
    /\ \E why \in {"llm", "parse"} :
          srv' = [srv EXCEPT !.stage = "answered", !.sent = @ + 1, !.failure = why]

\* POST /admin/reload-candidates up to its await: lines 95-97,
\* src/index.js 113-115.  No middleware is registered on the route.
AdminReload ==
    /\ srv.admin.stage = "received"
    /\ \E n \in LoadIds : \E d \in Elapsed :
          /\ StartLoad(n, TRUE, d)
          /\ srv' = [srv EXCEPT !.admin.stage = "loading", !.admin.load = n]

\* res.json({ok: true})
AdminResolved ==
    /\ srv.admin.stage = "loading"
    /\ loads[srv.admin.load].pc = "returned"
    /\ srv' = [srv EXCEPT !.admin.stage = "answered", !.admin.status = 200]
    /\ UNCHANGED <<variant, cacheVars, requestVars>>

\* res.status(500).json({error: "Failed to reload candidates"})
AdminRejected ==
    /\ srv.admin.stage = "loading"
    /\ loads[srv.admin.load].pc = "failed"
    /\ srv' = [srv EXCEPT !.admin.stage = "answered", !.admin.status = 500]
    /\ UNCHANGED <<variant, cacheVars, requestVars>>

(***************************************************************************)
(* SpecServer: one /recommend request and one admin reload from their      *)
(* arrival, over the process as it starts.                                 *)
(***************************************************************************)
InitServer ==
    /\ variant \in Variants
    /\ clock = StartTime
    /\ cachedGames = NullRef
    /\ cachedAt = 0
    /\ loads = [n \in LoadIds |->
                  IF n = 1 /\ variant = "standalone" THEN Preload ELSE IdleLoad]
    /\ completions = <<>>
    /\ \E client \in BOOLEAN : \E header \in Headers : \E favs \in Bodies :
       \E adminHeader \in {"", "Bearer owner"} :
          \* new OpenAI(..) of src/index.js always yields a client, and
          \* src/index.js never reads the Authorization header
          /\ variant = "standalone" => client /\ header = "" /\ adminHeader = ""
          /\ srv = NewServer(client, header, favs, adminHeader)
          /\ favorites = IF isArray(favs) THEN favs.items ELSE <<>>
    /\ pc = "none"
    /\ candidates = <<>>
    /\ genreFiltered = <<>>
    /\ pool = <<>>
    /\ llmResult = NoResult
    /\ response = NoResponse

NextServer ==
    \/ AuthGuard
    \/ VerifyFails
    \/ VerifyReturns
    \/ Recommend
    \/ LoadResolved
    \/ LoadRejected
    \/ CallLlm
    \/ ServerLlmReturns
    \/ ServerLlmFails
    \/ AdminReload
    \/ AdminResolved
    \/ AdminRejected
    \/ \E n \in LoadIds : FetchFails(n) /\ UNCHANGED srv
    \/ \E n \in LoadIds : FetchReturns(n) /\ UNCHANGED srv

SpecServer == InitServer /\ [][NextServer]_vars

(***************************************************************************)
(* Properties of the request from its arrival (SpecServer).                *)
(***************************************************************************)
\* the /recommend request has been answered
RequestAnswered == srv.stage = "answered"

\* favorites is missing, is not a list, or is an empty list
InvalidFavorites ==
    \/ srv.body.type # "array"
    \/ srv.body.items = <<>>

Is400 ==
    /\ response.status = 400
    /\ response.body = [error |-> "favorites must be a non-empty array"]

\* the handler body was entered: directly in src/index.js, through next()
\* of authGuard in src/functions/index.js
HandlerEntered == variant = "standalone" \/ srv.nexted

\* C11 as stated: every POST /recommend request whose favorites field is
\* missing, is not a list, or is empty is answered with status 400 and the
\* error "favorites must be a non-empty array".
C11_InvalidFavoritesAlways400 ==
    (RequestAnswered /\ InvalidFavorites) => Is400

\* C11, amended: a POST /recommend request whose favorites field is missing,
\* is not a list, or is empty, and that reaches the handler's favorites check
\* (it passed authGuard where there is one, and the LLM client is
\* configured), is answered with status 400 and the error
\* "favorites must be a non-empty array".
C11_InvalidFavorites400AfterGuards ==
    (RequestAnswered /\ InvalidFavorites /\ HandlerEntered /\ srv.client) => Is400

C11_Witness ==
    /\ variant = "functions"
    /\ RequestAnswered
    /\ srv.nexted
    /\ srv.client
    /\ srv.body = [type |-> "array", items |-> <<>>]
    /\ Is400

\* the request was rejected for its input or for the configuration
RejectedAtEntry ==
    /\ RequestAnswered
    /\ HandlerEntered
    /\ InvalidFavorites \/ ~srv.client

\* the step in which the handler sends 400 or the "not configured" 500
RejectsAtEntry ==
    /\ ~RequestAnswered
    /\ RejectedAtEntry'

\* C12: a POST /recommend request that is rejected because favorites is
\* invalid or because the LLM client is unconfigured has made no call of
\* loadCandidateGames (so no store read) and no LLM call, and the step that
\* rejects it leaves cachedGames, cachedAt and the calls in flight as they are.
C12_FailFast ==
    /\ [](RejectedAtEntry => srv.load = 0 /\ srv.llmCalls = 0)
    /\ [][RejectsAtEntry => UNCHANGED cacheVars]_vars

C12_Witness ==
    /\ variant = "functions"
    /\ RejectedAtEntry
    /\ ~srv.client
    /\ srv.body.type = "array"
    /\ response = errorResponse(500, "OpenAI is not configured on the server")
    /\ srv.admin.stage = "loading"
    /\ srv.load = 0

\* the admin request has made its loadCandidateGames(true) call
AdminForcedRefresh ==
    /\ srv.admin.load # 0
    /\ loads[srv.admin.load].force

\* C13: in the variant with the auth middleware (src/functions/index.js), a
\* POST /admin/reload-candidates request without a valid bearer token of the
\* allow-listed identity never triggers a forced cache refresh.
C13_ReloadGuarded ==
    (variant = "functions" /\ AdminForcedRefresh)
        => /\ bearerToken(srv.admin.header) \in VerifiableTokens
           /\ Decoded(bearerToken(srv.admin.header)).email = AllowedEmail

\* the handler body has run, as far as its effects show
HandlerRan ==
    \/ srv.load # 0
    \/ srv.llmCalls # 0
    \/ pc \in {"loaded", "llm"}
    \/ RequestAnswered /\ response.status \in {200, 400, 500}

NoStoreReadNoLlmCall == srv.load = 0 /\ srv.llmCalls = 0

\* C14: in src/functions/index.js the /recommend handler body runs only
\* after the bearer token was verified and carries the allow-listed e-mail;
\* an answered request with a missing or invalid token got 401, an answered
\* request whose verified token names another identity got 403, and neither
\* made a store read or an LLM call.
C14_AuthBeforeHandler ==
    variant = "functions" =>
        /\ HandlerRan => srv.decoded.email = "yzhou677@gmail.com"
        /\ (RequestAnswered /\ srv.header \notin {"Bearer guest", "Bearer owner"})
              => response.status = 401 /\ NoStoreReadNoLlmCall
        /\ (RequestAnswered /\ srv.decoded.email \notin {Null, "yzhou677@gmail.com"})
              => response.status = 403 /\ NoStoreReadNoLlmCall

C14_Witness ==
    /\ variant = "functions"
    /\ RequestAnswered
    /\ srv.header = "Bearer guest"
    /\ srv.decoded.email = "guest@example.com"
    /\ response = errorResponse(403, "Not allowed")
    /\ srv.admin.stage = "loading"

(***************************************************************************)
(* Properties of the pool and the response (SpecReconcile).                *)
(***************************************************************************)
\* the lower-cased name of g equals a lower-cased favorite
IsFavorite(g) ==
    \E i \in DOMAIN favorites :
        toLowerCase(nameOrEmpty(g)) = toLowerCase(favorites[i])

\* the genre-filtered candidates that are not favorites
NonFavorites == {j \in DOMAIN genreFiltered : ~IsFavorite(genreFiltered[j])}

\* a record of the response that carries a game
IsResolved(rec) == ~(prop(rec, "id") = Null /\ prop(rec, "name") = Null)

\* C15: in src/functions/index.js, whenever removing the favorites from the
\* genre-filtered list leaves at least 8 candidates, the pool offered to the
\* LLM holds no candidate whose lower-cased name equals a lower-cased
\* favorite, and no resolved recommendation of the response is a favorite.
C15_FavoritesNotRecommended ==
    (PoolBuilt /\ Cardinality(NonFavorites) >= 8) =>
        /\ \A j \in DOMAIN pool : ~IsFavorite(pool[j])
        /\ Answered =>
              \A k \in DOMAIN response.body.recommendations :
                  IsResolved(response.body.recommendations[k])
                      => ~IsFavorite(response.body.recommendations[k])

C15_Witness ==
    /\ PoolBuilt
    /\ Answered
    /\ favorites = <<"portal 2">>
    /\ \E j \in DOMAIN genreFiltered : prop(genreFiltered[j], "name") = "Portal 2"
    /\ Len(pool) = 8
    /\ Len(response.body.recommendations) = 2
    /\ IsResolved(response.body.recommendations[1])

\* the item refers to an entry of the pool that was offered to the LLM
RefersToPool(r) ==
    IF variant = "functions"
        THEN r.index \in 0..(Len(pool) - 1)
        ELSE \E j \in DOMAIN pool : prop(pool[j], "id") = r.id

\* C16: every record of the response that carries a full game is an entry of
\* the final pool offered to the LLM (plus the item's reason), and an item
\* whose index or id refers to no pool entry yields the degraded record with
\* a null name, the other items being answered all the same.
C16_ResolvedAgainstPoolOnly ==
    Answered =>
        /\ Len(response.body.recommendations) = Len(llmResult.recommendations)
        /\ \A k \in DOMAIN llmResult.recommendations :
              LET r   == llmResult.recommendations[k]
                  rec == response.body.recommendations[k]
              IN  /\ prop(rec, "name") # Null =>
                        \E j \in DOMAIN pool : IsGamePlusReason(rec, pool[j], r.reason)
                  /\ ~RefersToPool(r) =>
                        prop(rec, "name") = Null /\ rec.reason = r.reason

(***************************************************************************)
(* Properties of the request under concurrent reloads (SpecServer).        *)
(***************************************************************************)
\* a fetch completed, and replaced the cache, while the request was waiting
\* for the LLM
ReloadedWhileWaiting == srv.writesAtAnswer > srv.writesAtPrompt

\* the fields of a prompt entry other than its index
PromptFields(e) == DOMAIN e \ {"index"}

\* C17: in src/functions/index.js, when a cache reload completes while the
\* request waits for the LLM, the response is reconciled against the pool
\* the prompt was built from: the pool has the prompt's entries in the
\* prompt's order, and for every returned index i inside the prompt's index
\* domain the record is the game that index i denoted in the prompt, plus
\* the reason.
C17_ReloadDoesNotAffectRequest ==
    (Answered /\ variant = "functions" /\ ReloadedWhileWaiting) =>
        /\ Len(pool) = Len(srv.prompt)
        /\ \A i \in DOMAIN srv.prompt :
              /\ srv.prompt[i].index = i - 1
              /\ \A f \in PromptFields(srv.prompt[i]) : pool[i][f] = srv.prompt[i][f]
        /\ \A k \in DOMAIN llmResult.recommendations :
              LET r   == llmResult.recommendations[k]
                  rec == response.body.recommendations[k]
              IN  r.index \in 0..(Len(srv.prompt) - 1) =>
                    /\ IsGamePlusReason(rec, pool[r.index + 1], r.reason)
                    /\ \A f \in PromptFields(srv.prompt[r.index + 1]) :
                          rec[f] = srv.prompt[r.index + 1][f]

C17_Witness ==
    /\ Answered
    /\ variant = "functions"
    /\ ReloadedWhileWaiting
    /\ Len(srv.prompt) = 2
    /\ cachedGames.games = <<>>
    /\ cachedGames.ref # loads[srv.load].result.ref
    /\ Len(llmResult.recommendations) = 1
    /\ llmResult.recommendations[1].index = 1
    /\ prop(response.body.recommendations[1], "name") = "Tetris"

(***************************************************************************)
(* Order of the cache writes of overlapping calls (SpecCache).             *)
(***************************************************************************)
\* the step replaces the snapshot by one whose fetch was started earlier
ReplacedByEarlierFetch ==
    /\ cachedGames.ref # 0
    /\ cachedGames'.ref # cachedGames.ref
    /\ loads[cachedGames'.ref].now < loads[cachedGames.ref].now

\* C18 as stated: under any interleaving of overlapping loads the cache
\* timestamp never decreases, and the cached snapshot is never replaced by
\* the result of a fetch started earlier than the fetch that produced it.
C18_TimestampNeverDecreases ==
    [][cachedAt' >= cachedAt /\ ~ReplacedByEarlierFetch]_vars

\* the step is the success of a fetch whose call was made before the call
\* that produced the cached snapshot
CompletesOutOfOrder ==
    \E n \in LoadIds :
        /\ IsSuccess(n)
        /\ cachedGames.ref # 0
        /\ loads[n].now < loads[cachedGames.ref].now

\* C18, amended: the cache timestamp decreases, and the snapshot is replaced
\* by the result of an earlier-started fetch, in exactly the steps in which
\* a fetch succeeds whose call was made before the call that produced the
\* cached snapshot (the last writer wins); in every other step, so whenever
\* fetches complete in the order their calls were made, neither happens.
C18_DecreasesExactlyOutOfOrder ==
    [][/\ cachedAt' < cachedAt <=> CompletesOutOfOrder
       /\ ReplacedByEarlierFetch <=> CompletesOutOfOrder]_vars

\* C18 witness: the call made first completed after the call made second,
\* and the cache carries the older timestamp and the older fetch's snapshot
C18_Witness ==
    /\ Len(completions) = 2
    /\ completions[2] < completions[1]
    /\ loads[completions[1]].pc = "returned"
    /\ cachedAt = loads[completions[2]].now
    /\ cachedAt < loads[completions[1]].now
    /\ cachedGames.ref = completions[2]

(***************************************************************************)
(* The fallbacks of filterByGenre (SpecPool).                              *)
(***************************************************************************)
\* the liked-genre set filterByGenre computes for the request
LikedGenres ==
    IF variant = "functions"
        THEN favGenresOf(candidates, favorites)
        ELSE favGenresStandalone(candidates, favorites)

\* the genre names of a candidate, as the deployed file stores them
GenreNamesOf(g) ==
    IF variant = "functions"
        THEN {prop(g.genres[i], "name") : i \in DOMAIN genresOrEmpty(g)}
        ELSE {g.genres[i] : i \in DOMAIN genresOrEmpty(g)}

\* C19: whenever the liked-genre set computed by filterByGenre is non-empty,
\* the genre-matching subset is non-empty and holds every name-matched
\* favorite that has at least one genre; so the result of filterByGenre is
\* that subset (every entry shares a liked genre) and never the full input
\* returned by the final "subset is empty" fallback.
C19_FinalFallbackNeverTaken ==
    (pc # "loaded" /\ LikedGenres # {}) =>
        /\ genreFiltered # <<>>
        /\ \A i \in DOMAIN candidates :
              (IsFavorite(candidates[i]) /\ GenreNamesOf(candidates[i]) # {})
                  => \E j \in DOMAIN genreFiltered : genreFiltered[j] = candidates[i]
        /\ \A j \in DOMAIN genreFiltered :
              GenreNamesOf(genreFiltered[j]) \cap LikedGenres # {}

C19_Witness ==
    /\ pc # "loaded"
    /\ LikedGenres = {"Puzzle"}
    /\ Len(genreFiltered) > 1
    /\ Len(genreFiltered) < Len(candidates)
    /\ \E i \in DOMAIN candidates : GenreNamesOf(candidates[i]) = {}

(***************************************************************************)
(* SpecServerFair: SpecServer under the scheduling of the event loop.  A   *)
(* continuation that can run does run, and every token verification, store *)
(* read and LLM call that was issued returns or fails.                     *)
(***************************************************************************)
\* a step of the /recommend request: of its middleware or handler, or the
\* return or failure of the call it is waiting for
RequestStep ==
    \/ AuthGuard
    \/ Recommend
    \/ VerifyFails
    \/ VerifyReturns
    \/ LoadResolved
    \/ LoadRejected
    \/ CallLlm
    \/ ServerLlmReturns
    \/ ServerLlmFails

\* the return or failure of the store read of the request's own load
RequestFetchStep ==
    /\ srv.load # 0
    /\ FetchFails(srv.load) \/ FetchReturns(srv.load)
    /\ UNCHANGED srv

ServerFairness == WF_vars(RequestStep) /\ WF_vars(RequestFetchStep)

SpecServerFair == InitServer /\ [][NextServer]_vars /\ ServerFairness

\* the request's own store read failed
StoreReadFailed == srv.load # 0 /\ loads[srv.load].pc = "failed"

\* C20: when every store read, token verification and LLM call returns or
\* fails, the POST /recommend request is eventually answered, exactly once,
\* with status 200, 400, 401, 403 or 500; a failed store read, a failed LLM
\* call and an unparseable model output each end in a 500 response, and a
\* request that was answered is not answered again.
C20_ExactlyOneResponse ==
    /\ <>RequestAnswered
    /\ [](srv.sent <= 1)
    /\ [](RequestAnswered =>
            /\ srv.sent = 1
            /\ response.status \in {200, 400, 401, 403, 500})
    /\ []((RequestAnswered /\ (StoreReadFailed \/ srv.failure \in {"llm", "parse"}))
              => response.status = 500)
    /\ [][RequestAnswered => (RequestAnswered' /\ response' = response)]_vars

C20_Witness ==
    /\ RequestAnswered
    /\ srv.sent = 1
    /\ StoreReadFailed
    /\ srv.failure = "store"
    /\ response.status = 500
    /\ srv.admin.status = 200
====
